---------------------------- MODULE Spec2Model ----------------------------
(***************************************************************************)
(* The label transform component of federatedml/util/label_transform.py:   *)
(* LabelTransformer with its operations _init_model, fit, transform,       *)
(* export_model and load_model, and the helper load_value_to_type.         *)
(*                                                                         *)
(* Python values are modelled with their type: a dict key 1 (int), 1.0     *)
(* (float) and "1" (str) are three different values with two different     *)
(* string forms.  Text is a sequence of one-character strings, so that     *)
(* str(), int(), float() and the unpacking of a text are computed, not     *)
(* assumed.  A dict is the sequence of its (key, value) pairs in insertion *)
(* order; keys are compared the way Python compares them.                  *)
(*                                                                         *)
(* numpy is the one the component was written for: np.int and np.long are  *)
(* the builtin int, np.float the builtin float, np.double is np.float64.   *)
(***************************************************************************)
EXTENDS Integers, Sequences, FiniteSets, TLC

(***************************************************************************)
(* Bounds of the model.                                                    *)
(***************************************************************************)
\* Largest number of records in a dataset of training records.
MaxRecs == 2
\* Largest number of records in a dataset of prediction results.
MaxPredRecs == 1
\* Largest number of calls made on one component instance.
MaxCalls == 3

(***************************************************************************)
(* Text: sequences of characters.                                          *)
(***************************************************************************)
\* The characters of the model in their code point order ("." < digits < letters).
Alphabet == <<".", "0", "1", "2", "3", "4", "5", "6", "7", "8", "9", "a", "b", "c">>

CharCode(c) == CHOOSE i \in 1..Len(Alphabet) : Alphabet[i] = c

DigitChars == <<"0", "1", "2", "3", "4", "5", "6", "7", "8", "9">>

IsDigit(c) == \E i \in 1..10 : DigitChars[i] = c

DigitVal(c) == (CHOOSE i \in 1..10 : DigitChars[i] = c) - 1

RECURSIVE Digits(_)
\* The decimal numeral of a natural number.
Digits(n) ==
    IF n < 10 THEN <<DigitChars[n + 1]>>
    ELSE Digits(n \div 10) \o <<DigitChars[(n % 10) + 1]>>

AllDigits(s) == Len(s) > 0 /\ \A i \in 1..Len(s) : IsDigit(s[i])

RECURSIVE NatOf(_)
\* The value of a numeral.
NatOf(s) ==
    IF Len(s) = 0 THEN 0
    ELSE 10 * NatOf(SubSeq(s, 1, Len(s) - 1)) + DigitVal(s[Len(s)])

RECURSIVE TextLess(_, _)
\* Python's < on str: lexicographic by code point.
TextLess(a, b) ==
    IF Len(b) = 0 THEN FALSE
    ELSE IF Len(a) = 0 THEN TRUE
    ELSE IF a[1] # b[1] THEN CharCode(a[1]) < CharCode(b[1])
    ELSE TextLess(Tail(a), Tail(b))

(***************************************************************************)
(* Typed values.  ty is type(v).__name__; a number is held in halves       *)
(* (h = 3 is 1.5), so that floats with a fractional part exist; a text is  *)
(* held in s.                                                              *)
(***************************************************************************)
IntV(n) == [ty |-> "int", h |-> 2 * n, s |-> <<>>]

FloatV(h) == [ty |-> "float", h |-> h, s |-> <<>>]

TextV(s) == [ty |-> "str", h |-> 0, s |-> s]

IntTypes == {"int", "int64"}

FloatTypes == {"float", "float64"}

IsNum(v) == v.ty \in IntTypes \cup FloatTypes

\* type(v).__name__
TypeName(v) == v.ty

\* Python's == (and hash) on dict keys: numbers by value, texts by content.
PyEq(a, b) ==
    IF IsNum(a) /\ IsNum(b) THEN a.h = b.h
    ELSE IF ~IsNum(a) /\ ~IsNum(b) THEN a.s = b.s
    ELSE FALSE

\* Whether a < b is defined: not between a number and a text (TypeError).
Comparable(a, b) == IsNum(a) = IsNum(b)

\* Python's < where it is defined.
PyLess(a, b) == IF IsNum(a) THEN a.h < b.h ELSE TextLess(a.s, b.s)

\* str(v): "1" for the int 1, "1.0" and "1.5" for floats, a text as it is.
Str(v) ==
    IF v.ty \in IntTypes THEN Digits(v.h \div 2)
    ELSE IF v.ty \in FloatTypes
         THEN Digits(v.h \div 2) \o <<".">> \o (IF v.h % 2 = 0 THEN <<"0">> ELSE <<"5">>)
    ELSE v.s

\* Whether float() parses a text: digits, or digits "." and one of 0, 5 (the
\* only fractions the model's numbers have).
IsFloatText(s) ==
    \/ AllDigits(s)
    \/ /\ Len(s) >= 3
       /\ s[Len(s) - 1] = "."
       /\ s[Len(s)] \in {"0", "5"}
       /\ AllDigits(SubSeq(s, 1, Len(s) - 2))

\* float(s) in halves.
FloatOf(s) ==
    IF AllDigits(s) THEN 2 * NatOf(s)
    ELSE 2 * NatOf(SubSeq(s, 1, Len(s) - 2)) + (IF s[Len(s)] = "5" THEN 1 ELSE 0)

Ok(v) == [err |-> "", v |-> v]

Raise(e) == [err |-> e, v |-> TextV(<<>>)]

(***************************************************************************)
(* load_value_to_type(value, value_type): getattr(np, value_type)(value)   *)
(* for the numeric tags, str(value) for the text tags, ValueError for any  *)
(* other tag.  (The value is never None here: neither a label nor a        *)
(* persisted string is.)                                                   *)
(***************************************************************************)
IntTags == {"int", "int64", "long"}

FloatTags == {"float", "float64", "double"}

TextTags == {"str", "_str"}

RecognisedTags == IntTags \cup FloatTags \cup TextTags

\* The type of the value np.<tag>(...) returns.
NumpyType(tag) ==
    IF tag \in {"int", "long"} THEN "int"
    ELSE IF tag = "int64" THEN "int64"
    ELSE IF tag = "float" THEN "float"
    ELSE "float64"

\* getattr(np, tag)(value): int() truncates a number and parses a numeral,
\* float() parses a decimal; a text that is neither is a ValueError.
NumpyCall(value, tag) ==
    IF tag \in IntTags
    THEN IF IsNum(value)
         THEN Ok([ty |-> NumpyType(tag), h |-> 2 * (value.h \div 2), s |-> <<>>])
         ELSE IF AllDigits(value.s)
              THEN Ok([ty |-> NumpyType(tag), h |-> 2 * NatOf(value.s), s |-> <<>>])
              ELSE Raise("ValueError")
    ELSE IF IsNum(value)
         THEN Ok([ty |-> NumpyType(tag), h |-> value.h, s |-> <<>>])
         ELSE IF IsFloatText(value.s)
              THEN Ok([ty |-> NumpyType(tag), h |-> FloatOf(value.s), s |-> <<>>])
              ELSE Raise("ValueError")

load_value_to_type(value, value_type) ==
    IF value_type \in IntTags \cup FloatTags THEN NumpyCall(value, value_type)
    ELSE IF value_type \in TextTags THEN Ok(TextV(Str(value)))
    ELSE Raise("ValueError")

(***************************************************************************)
(* Dicts: sequences of <<key, value>> in insertion order.                  *)
(***************************************************************************)
HasKey(d, k) == \E i \in 1..Len(d) : PyEq(d[i][1], k)

KeyIndex(d, k) == CHOOSE i \in 1..Len(d) : PyEq(d[i][1], k)

\* d[k] for a key that is there.
Get(d, k) == d[KeyIndex(d, k)][2]

\* d[k] = v: an existing key keeps its place and its key object.
Put(d, k, v) ==
    IF HasKey(d, k) THEN [d EXCEPT ![KeyIndex(d, k)] = <<d[KeyIndex(d, k)][1], v>>]
    ELSE Append(d, <<k, v>>)

RECURSIVE DictOf(_)
\* dict(pairs), and a dict comprehension over pairs in order.
DictOf(pairs) ==
    IF Len(pairs) = 0 THEN <<>>
    ELSE LET p == pairs[Len(pairs)]
         IN  Put(DictOf(SubSeq(pairs, 1, Len(pairs) - 1)), p[1], p[2])

Keys(d) == [i \in 1..Len(d) |-> d[i][1]]

\* An attribute that holds None, holds a value, or was never assigned.
None == [st |-> "none", d |-> <<>>]

Unset == [st |-> "unset", d |-> <<>>]

Some(d) == [st |-> "some", d |-> d]

(***************************************************************************)
(* Records and datasets.  A dataset is the sequence of its record values   *)
(* (its keys are the positions); all records of a dataset are of one kind. *)
(***************************************************************************)
\* An Instance: the label field (the feature payload plays no part).
Instance(label) == [kind |-> "Instance", label |-> label]

\* A predict result [true_label, predict_label, predict_score, predict_detail];
\* predict_detail is a dict from label to score, scores are in tenths.
PredictResult(t, p, score, detail) ==
    [kind |-> "Predict", true_label |-> t, predict_label |-> p,
     predict_score |-> score, predict_detail |-> detail]

\* isinstance(data.first()[1], Instance)
IsInstanceData(data) == data[1].kind = "Instance"

RECURSIVE Insert(_, _)
\* One step of the sort: x goes before the first element greater than it.
Insert(sorted, x) ==
    IF Len(sorted) = 0 THEN <<x>>
    ELSE IF PyLess(x, sorted[1]) THEN <<x>> \o sorted
    ELSE <<sorted[1]>> \o Insert(Tail(sorted), x)

RECURSIVE InsertionSort(_)
InsertionSort(xs) ==
    IF Len(xs) = 0 THEN <<>>
    ELSE Insert(InsertionSort(SubSeq(xs, 1, Len(xs) - 1)), xs[Len(xs)])

\* Faulty variant of sorted: the labels stay in the order they were met in.
sorted_first_seen(xs) ==
    IF \E i, j \in 1..Len(xs) : ~Comparable(xs[i], xs[j]) THEN Raise("TypeError")
    ELSE Ok(xs)

\* sorted(xs): a TypeError when a number meets a text.
sorted(xs) ==
    IF \E i, j \in 1..Len(xs) : ~Comparable(xs[i], xs[j]) THEN Raise("TypeError")
    ELSE Ok(InsertionSort(xs))

RECURSIVE Distinct(_)
\* The distinct values of a sequence in first-seen order: the keys of a dict
\* (or the elements of a set) filled in that order.
Distinct(xs) ==
    IF Len(xs) = 0 THEN <<>>
    ELSE LET rest == Distinct(SubSeq(xs, 1, Len(xs) - 1))
             x == xs[Len(xs)]
         IN  IF \E i \in 1..Len(rest) : PyEq(rest[i], x) THEN rest ELSE Append(rest, x)

\* get_label_count(data).keys(): the distinct labels of the records.  The
\* order of the keys is the order the records are met in.
get_label_count(data) == Distinct([i \in 1..Len(data) |-> data[i].label])

RECURSIVE Flatten(_)
Flatten(xss) ==
    IF Len(xss) = 0 THEN <<>>
    ELSE Flatten(SubSeq(xss, 1, Len(xss) - 1)) \o xss[Len(xss)]

\* The labels one predict result carries.
PredictLabels(pr) == <<pr.true_label, pr.predict_label>> \o Keys(pr.predict_detail)

\* get_predict_result_labels(data): the union of true_label, predict_label
\* and the keys of predict_detail over the records.
get_predict_result_labels(data) ==
    Distinct(Flatten([i \in 1..Len(data) |-> PredictLabels(data[i])]))

\* Faulty variant of ZipRange: the ids start at 1.
ZipRangeFromOne(labels) == DictOf([i \in 1..Len(labels) |-> <<labels[i], IntV(i)>>])

\* dict(zip(labels, range(len(labels))))
ZipRange(labels) == DictOf([i \in 1..Len(labels) |-> <<labels[i], IntV(i - 1)>>])

\* Lines 57-63: the labels of the data, sorted, numbered from 0.
Discover(data) ==
    LET labels == IF IsInstanceData(data) THEN sorted(get_label_count(data))
                  ELSE sorted(get_predict_result_labels(data))
    IN  IF labels.err # "" THEN [err |-> labels.err, d |-> <<>>]
        ELSE [err |-> "", d |-> ZipRange(labels.v)]

(***************************************************************************)
(* The per-record rewrite.                                                 *)
(***************************************************************************)
\* Faulty variant of replace_instance_label: a label without an entry passes
\* through unchanged (label_encoder.get(label, label)).
replace_instance_label_default(instance, label_encoder) ==
    IF ~HasKey(label_encoder, instance.label) THEN Ok(instance)
    ELSE Ok([instance EXCEPT !.label = Get(label_encoder, instance.label)])

\* replace_instance_label: a copy of the instance with label_encoder[label].
replace_instance_label(instance, label_encoder) ==
    IF ~HasKey(label_encoder, instance.label) THEN Raise("KeyError")
    ELSE Ok([instance EXCEPT !.label = Get(label_encoder, instance.label)])

\* Faulty variant of replace_predict_label: predict_detail keeps its keys.
replace_predict_label_detail_kept(predict_result, label_encoder) ==
    LET detail == predict_result.predict_detail
    IN  IF \/ ~HasKey(label_encoder, predict_result.true_label)
           \/ ~HasKey(label_encoder, predict_result.predict_label)
           \/ \E i \in 1..Len(detail) : ~HasKey(label_encoder, detail[i][1])
        THEN Raise("KeyError")
        ELSE Ok(PredictResult(
                 Get(label_encoder, predict_result.true_label),
                 Get(label_encoder, predict_result.predict_label),
                 predict_result.predict_score,
                 detail))

\* replace_predict_label: both labels and every key of predict_detail go
\* through label_encoder; the detail is rebuilt by a dict comprehension.
replace_predict_label(predict_result, label_encoder) ==
    LET detail == predict_result.predict_detail
    IN  IF \/ ~HasKey(label_encoder, predict_result.true_label)
           \/ ~HasKey(label_encoder, predict_result.predict_label)
           \/ \E i \in 1..Len(detail) : ~HasKey(label_encoder, detail[i][1])
        THEN Raise("KeyError")
        ELSE Ok(PredictResult(
                 Get(label_encoder, predict_result.true_label),
                 Get(label_encoder, predict_result.predict_label),
                 predict_result.predict_score,
                 DictOf([i \in 1..Len(detail) |->
                            <<Get(label_encoder, detail[i][1]), detail[i][2]>>])))

\* transform_data_label: mapValues of the rewrite of the data's kind; one
\* failing record fails the call.
transform_data_label(data, label_encoder) ==
    LET one(v) == IF IsInstanceData(data) THEN replace_instance_label(v, label_encoder)
                  ELSE replace_predict_label(v, label_encoder)
        res == [i \in 1..Len(data) |-> one(data[i])]
    IN  IF \E i \in 1..Len(data) : res[i].err # ""
        THEN [err |-> "KeyError", out |-> <<>>]
        ELSE [err |-> "", out |-> [i \in 1..Len(data) |-> res[i].v]]

(***************************************************************************)
(* The component.                                                          *)
(***************************************************************************)
VARIABLES
    label_encoder,       \* self.label_encoder: Unset, None or Some(dict)
    label_list,          \* self.label_list: Unset, None or Some(sequence)
    need_run,            \* self.need_run
    encoder_key_type,    \* self.encoder_key_type: None or Some(dict str -> tag)
    encoder_value_type,  \* self.encoder_value_type: None or Some(dict str -> tag)
    model_output,        \* self.model_output: None or Some(<<meta, param>>)
    call,                \* the last call: its operation, argument and outcome
    calls                \* the number of calls made so far

vars == <<label_encoder, label_list, need_run, encoder_key_type,
          encoder_value_type, model_output, call, calls>>

\* What a call leaves for its caller: the exception it raised ("" for none),
\* the dataset it returned, whether callback_info ran, whether lines 57-63
\* discovered an encoder, whether fit's line 163 assigned one.
Outcome(op, arg, err, out, emitted, discovered, installed) ==
    [op |-> op, arg |-> arg, err |-> err, out |-> out, emitted |-> emitted,
     discovered |-> discovered, installed |-> installed]

\* {str(v): type(v).__name__ for v in self.label_list}
ListKeyTypes(list) ==
    DictOf([i \in 1..Len(list) |-> <<TextV(Str(list[i])), TypeName(list[i])>>])

\* {str(k): type(k).__name__ for k in self.label_encoder.keys()}
KeyTypes(d) == DictOf([i \in 1..Len(d) |-> <<TextV(Str(d[i][1])), TypeName(d[i][1])>>])

\* {str(k): type(v).__name__ for k, v in self.label_encoder.items()}
ValueTypes(d) == DictOf([i \in 1..Len(d) |-> <<TextV(Str(d[i][1])), TypeName(d[i][2])>>])

RECURSIVE Rekey(_, _)
\* Line 69: {load_value_to_type(k, key_type[str(k)]): v for k, v in items}; a
\* key whose string form has no tag is a KeyError.
Rekey(d, key_type) ==
    IF Len(d) = 0 THEN [err |-> "", d |-> <<>>]
    ELSE LET before == Rekey(SubSeq(d, 1, Len(d) - 1), key_type)
             k == d[Len(d)][1]
             v == d[Len(d)][2]
         IN  IF before.err # "" THEN before
             ELSE IF ~HasKey(key_type, TextV(Str(k))) THEN [err |-> "KeyError", d |-> <<>>]
             ELSE LET loaded == load_value_to_type(k, Get(key_type, TextV(Str(k))))
                  IN  IF loaded.err # "" THEN [err |-> loaded.err, d |-> <<>>]
                      ELSE [err |-> "", d |-> Put(before.d, loaded.v, v)]

\* get_label_encoder(data) on a component whose fields are le, ll, kt: the
\* exception or the returned dict, and the fields as the call leaves them.
get_label_encoder(le, ll, kt, vt, data) ==
    LET fail(e, le1, kt1, vt1, disc) ==
            [err |-> e, ret |-> <<>>, label_encoder |-> le1, encoder_key_type |-> kt1,
             encoder_value_type |-> vt1, discovered |-> disc]
    IN  IF le.st = "unset" THEN fail("AttributeError", le, kt, vt, FALSE)
        ELSE IF le.st = "some" /\ ll.st = "unset" THEN fail("AttributeError", le, kt, vt, FALSE)
        ELSE LET found == IF le.st = "some" THEN [err |-> "", d |-> le.d] ELSE Discover(data)
             IN  IF found.err # "" THEN fail(found.err, le, kt, vt, FALSE)
                 ELSE LET le1 == Some(found.d)
                          disc == le.st = "none"
                          kt1 == IF le.st = "some" /\ ll.st = "some"
                                 THEN Some(ListKeyTypes(ll.d)) ELSE kt
                          kt2 == IF kt1.st = "none" THEN Some(KeyTypes(found.d)) ELSE kt1
                          vt2 == Some(ValueTypes(found.d))
                          keyed == Rekey(found.d, kt2.d)
                      IN  IF keyed.err # "" THEN fail(keyed.err, le1, kt2, vt2, disc)
                          ELSE [err |-> "", ret |-> keyed.d, label_encoder |-> le1,
                                encoder_key_type |-> kt2, encoder_value_type |-> vt2,
                                discovered |-> disc]

\* dict(zip(self.label_encoder.values(), self.label_encoder.keys()))
Inverse(d) == DictOf([i \in 1..Len(d) |-> <<d[i][2], d[i][1]>>])

\* Faulty variant of TransformMap: the encoder is never inverted.
TransformMapForward(data, d) == d

\* The map transform rewrites with: the encoder, inverted for predict results.
TransformMap(data, d) == IF IsInstanceData(data) THEN d ELSE Inverse(d)

\* The map fit rewrites with: the encoder it has just installed.
FitMap(data, d) == d

\* Faulty variant of transform: without an encoder the data passes through.
transform_unchecked(le, data) ==
    IF le.st # "some" THEN [err |-> "", out |-> data, emitted |-> TRUE]
    ELSE LET r == transform_data_label(data, TransformMap(data, le.d))
         IN  [err |-> r.err, out |-> r.out, emitted |-> r.err = ""]

\* transform(data) on a component whose encoder field is le.
transform(le, data) ==
    IF le.st = "unset" THEN [err |-> "AttributeError", out |-> <<>>, emitted |-> FALSE]
    ELSE IF le.st = "none" THEN [err |-> "ValueError", out |-> <<>>, emitted |-> FALSE]
    ELSE LET r == transform_data_label(data, TransformMap(data, le.d))
         IN  [err |-> r.err, out |-> r.out, emitted |-> r.err = ""]

\* for k, v in self.label_encoder: each KEY is unpacked into two.  A number is
\* not iterable (TypeError); a text unpacks into its characters, which must
\* be two (ValueError otherwise).
Unpack(k) ==
    IF IsNum(k) THEN [err |-> "TypeError", k |-> <<>>, v |-> <<>>]
    ELSE IF Len(k.s) # 2 THEN [err |-> "ValueError", k |-> <<>>, v |-> <<>>]
    ELSE [err |-> "", k |-> <<k.s[1]>>, v |-> <<k.s[2]>>]

RECURSIVE StrItems(_)
\* {str(k): str(v) for k, v in self.label_encoder}
StrItems(d) ==
    IF Len(d) = 0 THEN [err |-> "", d |-> <<>>]
    ELSE LET before == StrItems(SubSeq(d, 1, Len(d) - 1))
             kv == Unpack(d[Len(d)][1])
         IN  IF before.err # "" THEN before
             ELSE IF kv.err # "" THEN [err |-> kv.err, d |-> <<>>]
             ELSE [err |-> "", d |-> Put(before.d, TextV(kv.k), TextV(kv.v))]

\* _get_param(): the param record, or the exception of the comprehension.
get_param(le, kt, vt) ==
    IF le.st = "unset" THEN [err |-> "AttributeError", param |-> <<>>]
    ELSE IF le.st = "none" THEN [err |-> "TypeError", param |-> <<>>]
    ELSE LET items == StrItems(le.d)
         IN  IF items.err # "" THEN [err |-> items.err, param |-> <<>>]
             ELSE [err |-> "",
                   param |-> [label_encoder |-> items.d,
                              encoder_key_type |-> kt.d,
                              encoder_value_type |-> vt.d]]

\* param_obj.encoder_key_type[k]: a protobuf map gives "" for a missing key.
TagOf(types, k) == IF HasKey(types, k) THEN Get(types, k) ELSE ""

RECURSIVE LoadItems(_, _, _)
\* Lines 104-107: the comprehension of load_model over the persisted items.
LoadItems(items, key_type, value_type) ==
    IF Len(items) = 0 THEN [err |-> "", d |-> <<>>]
    ELSE LET before == LoadItems(SubSeq(items, 1, Len(items) - 1), key_type, value_type)
             k == items[Len(items)][1]
             v == items[Len(items)][2]
             key == load_value_to_type(k, TagOf(key_type, k))
             val == load_value_to_type(v, TagOf(value_type, k))
         IN  IF before.err # "" THEN [err |-> before.err, d |-> before.d]
             ELSE IF key.err # "" THEN [err |-> key.err, d |-> before.d]
             ELSE IF val.err # "" THEN [err |-> val.err, d |-> before.d]
             ELSE [err |-> "", d |-> Put(before.d, key.v, val.v)]

\* Faulty variant of LoadedEncoder: the entries rebuilt before the exception
\* are kept.
LoadedEncoderPartial(old, param) ==
    LET r == LoadItems(param.label_encoder, param.encoder_key_type, param.encoder_value_type)
    IN  [err |-> r.err, label_encoder |-> Some(r.d)]

\* self.label_encoder after load_model(param): the rebuilt dict, or, when the
\* comprehension raises, what the field held before.
LoadedEncoder(old, param) ==
    LET r == LoadItems(param.label_encoder, param.encoder_key_type, param.encoder_value_type)
    IN  [err |-> r.err, label_encoder |-> IF r.err = "" THEN Some(r.d) ELSE old]

(***************************************************************************)
(* The inputs of the calls.                                                *)
(***************************************************************************)
IntLabels == {IntV(0), IntV(1)}

FloatLabels == {FloatV(1), FloatV(3)}

TextLabels == {TextV(<<"a">>), TextV(<<"a", "b">>)}

\* The non-empty sequences over S of length at most n.
SeqsUpTo(S, n) == UNION {[1..k -> S] : k \in 1..n}

\* Datasets of training records: every label sequence of one type, and one
\* dataset that mixes a number and a text.
InstanceData ==
    {[i \in 1..Len(ls) |-> Instance(ls[i])] :
        ls \in SeqsUpTo(IntLabels, MaxRecs) \cup SeqsUpTo(FloatLabels, MaxRecs)
               \cup SeqsUpTo(TextLabels, MaxRecs)}
    \cup {<<Instance(IntV(1)), Instance(TextV(<<"a">>))>>}

IntPredictResults ==
    {PredictResult(IntV(0), IntV(1), 9, <<<<IntV(0), 1>>, <<IntV(1), 9>>>>),
     PredictResult(IntV(0), IntV(0), 7, <<<<IntV(0), 7>>>>)}

TextPredictResults ==
    {PredictResult(TextV(<<"a">>), TextV(<<"a", "b">>), 9,
                   <<<<TextV(<<"a">>), 1>>, <<TextV(<<"a", "b">>), 9>>>>),
     PredictResult(TextV(<<"a", "b">>), TextV(<<"a", "b">>), 6,
                   <<<<TextV(<<"a", "b">>), 6>>>>)}

\* Datasets of prediction results.
PredictData ==
    SeqsUpTo(IntPredictResults, MaxPredRecs) \cup SeqsUpTo(TextPredictResults, MaxPredRecs)

Datasets == InstanceData \cup PredictData

\* The configurations _init_model is given: no encoder; an encoder with the
\* text keys of a JSON document and the label_list that types them; an encoder
\* whose label_list misses a key; a many-to-one encoder; a plain encoder.
ParamSet ==
    {[label_encoder |-> None, label_list |-> None, need_run |-> TRUE],
     [label_encoder |-> Some(<<<<TextV(<<"1">>), IntV(0)>>, <<TextV(<<"2">>), IntV(1)>>>>),
      label_list |-> Some(<<IntV(1), IntV(2)>>), need_run |-> TRUE],
     [label_encoder |-> Some(<<<<IntV(1), IntV(0)>>, <<IntV(2), IntV(1)>>>>),
      label_list |-> Some(<<IntV(1), IntV(0)>>), need_run |-> TRUE],
     [label_encoder |-> Some(<<<<IntV(0), IntV(0)>>, <<IntV(1), IntV(0)>>>>),
      label_list |-> None, need_run |-> TRUE],
     [label_encoder |-> Some(<<<<TextV(<<"a">>), IntV(0)>>, <<TextV(<<"a", "b">>), IntV(1)>>>>),
      label_list |-> None, need_run |-> FALSE]}

\* A persisted param record whose tags are keyed like its label_encoder.
Persisted(items, keyTags, valueTags) ==
    [label_encoder |-> [i \in 1..Len(items) |-> <<TextV(items[i][1]), TextV(items[i][2])>>],
     encoder_key_type |-> [i \in 1..Len(items) |-> <<TextV(items[i][1]), keyTags[i]>>],
     encoder_value_type |-> [i \in 1..Len(items) |-> <<TextV(items[i][1]), valueTags[i]>>]]

\* The model_dicts load_model is given: int, float64 and text encoders as a
\* correct export writes them, and records with a tag outside the recognised
\* set (on the second key, on the first value).
PersistedSet ==
    {[need_run |-> TRUE,
      param |-> Persisted(<<<<<<"1">>, <<"0">>>>, <<<<"2">>, <<"1">>>>>>,
                          <<"int", "int">>, <<"int", "int">>)],
     [need_run |-> FALSE,
      param |-> Persisted(<<<<<<"0", ".", "5">>, <<"0">>>>, <<<<"1", ".", "5">>, <<"1">>>>>>,
                          <<"float64", "float64">>, <<"int64", "int64">>)],
     [need_run |-> TRUE,
      param |-> Persisted(<<<<<<"a">>, <<"0">>>>, <<<<"a", "b">>, <<"1">>>>>>,
                          <<"str", "str">>, <<"int", "int">>)],
     [need_run |-> TRUE,
      param |-> Persisted(<<<<<<"1">>, <<"0">>>>, <<<<"2">>, <<"1">>>>>>,
                          <<"int", "bool">>, <<"int", "int">>)],
     [need_run |-> TRUE,
      param |-> Persisted(<<<<<<"a">>, <<"0">>>>, <<<<"a", "b">>, <<"1">>>>>>,
                          <<"str", "str">>, <<"int32", "int">>)]}

NoData == <<>>

(***************************************************************************)
(* The state after LabelTransformer(): __init__ assigns neither            *)
(* label_encoder nor label_list; need_run and model_output are as the base *)
(* class leaves them.                                                      *)
(***************************************************************************)
Init ==
    /\ label_encoder = Unset
    /\ label_list = Unset
    /\ need_run = TRUE
    /\ encoder_key_type = None
    /\ encoder_value_type = None
    /\ model_output = None
    /\ call = Outcome("__init__", NoData, "", <<>>, FALSE, FALSE, FALSE)
    /\ calls = 0

\* _init_model(params)
InitModel(params) ==
    /\ label_encoder' = params.label_encoder
    /\ label_list' = params.label_list
    /\ need_run' = params.need_run
    /\ call' = Outcome("_init_model", params, "", <<>>, FALSE, FALSE, FALSE)
    /\ UNCHANGED <<encoder_key_type, encoder_value_type, model_output>>

\* fit(data)
Fit(data) ==
    LET g == get_label_encoder(label_encoder, label_list, encoder_key_type,
                               encoder_value_type, data)
        r == transform_data_label(data, FitMap(data, g.ret))
    IN  /\ encoder_key_type' = g.encoder_key_type
        /\ encoder_value_type' = g.encoder_value_type
        /\ IF g.err # ""
           THEN /\ label_encoder' = g.label_encoder
                /\ call' = Outcome("fit", data, g.err, <<>>, FALSE, g.discovered, FALSE)
           ELSE /\ label_encoder' = Some(g.ret)
                /\ call' = Outcome("fit", data, r.err, r.out, r.err = "", g.discovered, TRUE)
        /\ UNCHANGED <<label_list, need_run, model_output>>

\* transform(data)
Transform(data) ==
    LET r == transform(label_encoder, data)
    IN  /\ call' = Outcome("transform", data, r.err, r.out, r.emitted, FALSE, FALSE)
        /\ UNCHANGED <<label_encoder, label_list, need_run, encoder_key_type,
                       encoder_value_type, model_output>>

\* export_model()
ExportModel ==
    LET p == get_param(label_encoder, encoder_key_type, encoder_value_type)
    IN  /\ model_output' = IF p.err # "" THEN model_output
                           ELSE Some(<<[need_run |-> need_run], p.param>>)
        /\ call' = Outcome("export_model", NoData, p.err, <<>>, FALSE, FALSE, FALSE)
        /\ UNCHANGED <<label_encoder, label_list, need_run, encoder_key_type,
                       encoder_value_type>>

\* load_model(model_dict)
LoadModel(model) ==
    LET r == LoadedEncoder(label_encoder, model.param)
    IN  /\ need_run' = model.need_run
        /\ encoder_key_type' = Some(model.param.encoder_key_type)
        /\ encoder_value_type' = Some(model.param.encoder_value_type)
        /\ label_encoder' = r.label_encoder
        /\ call' = Outcome("load_model", model, r.err, <<>>, FALSE, FALSE, FALSE)
        /\ UNCHANGED <<label_list, model_output>>

\* One more call, while the bound allows it.
Count == calls < MaxCalls /\ calls' = calls + 1

Next ==
    \/ \E params \in ParamSet : InitModel(params) /\ Count
    \/ \E data \in Datasets : Fit(data) /\ Count
    \/ \E data \in Datasets : Transform(data) /\ Count
    \/ ExportModel /\ Count
    \/ \E model \in PersistedSet : LoadModel(model) /\ Count

Spec == Init /\ [][Next]_vars

(***************************************************************************)
(* Vocabulary of the properties.                                           *)
(***************************************************************************)
\* The labels a record carries.
RecordLabels(rec) ==
    IF rec.kind = "Instance" THEN {rec.label}
    ELSE {rec.true_label, rec.predict_label}
         \cup {rec.predict_detail[j][1] : j \in 1..Len(rec.predict_detail)}

\* The label population of a dataset.
LabelsOf(data) == UNION {RecordLabels(data[i]) : i \in 1..Len(data)}

\* Python's == on two dicts.
PyDictEq(a, b) ==
    /\ Len(a) = Len(b)
    /\ \A i \in 1..Len(a) : HasKey(b, a[i][1]) /\ PyEq(Get(b, a[i][1]), a[i][2])

\* The last call is a fit or a transform that returned a dataset.
Rewrote(op) == call.op = op /\ call.err = ""

\* The last call is a fit whose discovery (lines 57-63) built an encoder.
Discovered == call.op = "fit" /\ call.discovered

\* The id the encoder gives the raw label l (matched by string form, which
\* the key keeps when fit re-types it).
IdOf(l) ==
    label_encoder.d[CHOOSE i \in 1..Len(label_encoder.d) :
                        Str(label_encoder.d[i][1]) = Str(l)][2]

\* C3 (Bijection): after a fit that discovered the encoder, the encoder has one
\* entry per distinct raw label of the dataset, its ids are exactly 0..n-1,
\* each once, and a smaller raw label has a smaller id; when the fit
\* succeeded, the keys are the raw labels themselves.
C3_Bijection ==
    Discovered =>
        LET d == label_encoder.d
            L == LabelsOf(call.arg)
        IN  /\ Len(d) = Cardinality(L)
            /\ \A j \in 0..(Len(d) - 1) : \E i \in 1..Len(d) : d[i][2] = IntV(j)
            /\ \A l \in L : \E i \in 1..Len(d) : Str(d[i][1]) = Str(l)
            /\ \A l1, l2 \in L : PyLess(l1, l2) => IdOf(l1).h < IdOf(l2).h
            /\ call.err = "" => \A l \in L : HasKey(d, l)

\* A fit discovered an encoder over two labels met in descending order.
C3_Witness ==
    /\ Discovered /\ call.err = ""
    /\ Len(call.arg) = 2 /\ IsInstanceData(call.arg)
    /\ PyLess(call.arg[2].label, call.arg[1].label)

\* C4 (Determinism): the assignment a successful discovering fit leaves is the
\* one discovery yields on every other dataset with the same label population,
\* whatever the order, multiplicity and kind of its records.
C4_Determinism ==
    (Discovered /\ call.err = "") =>
        \A other \in Datasets :
            LabelsOf(other) = LabelsOf(call.arg) =>
                /\ Discover(other).err = ""
                /\ PyDictEq(Discover(other).d, label_encoder.d)

\* A discovering fit on a dataset for which another dataset holds the same
\* two labels in the opposite order.
C4_Witness ==
    /\ Discovered /\ call.err = ""
    /\ Len(label_encoder.d) = 2
    /\ \E other \in Datasets :
           /\ LabelsOf(other) = LabelsOf(call.arg)
           /\ IsInstanceData(other) /\ IsInstanceData(call.arg)
           /\ other[1].label # call.arg[1].label

\* The map the last fit or transform rewrote (or tried to rewrite) with.
ActiveMap ==
    IF call.op = "fit" THEN FitMap(call.arg, label_encoder.d)
    ELSE TransformMap(call.arg, label_encoder.d)

\* The last call reached the rewrite of its records.
ReachedRewrite ==
    \/ call.op = "fit" /\ call.installed
    \/ call.op = "transform" /\ label_encoder.st = "some"

\* Some record of the last call carries a label the active map has no key for.
SomeUnmapped ==
    \E i \in 1..Len(call.arg) : \E l \in RecordLabels(call.arg[i]) : ~HasKey(ActiveMap, l)

\* C5 (Unmapped label): a fit or transform that rewrites a record with a label
\* that is no key of the active map raises KeyError, returns no record and
\* emits nothing.
C5_Unmapped ==
    (ReachedRewrite /\ SomeUnmapped) =>
        call.err = "KeyError" /\ call.out = <<>> /\ ~call.emitted

\* A transform of two training records of which the first maps and the
\* second does not.
C5_Witness ==
    /\ call.op = "transform" /\ label_encoder.st = "some"
    /\ Len(call.arg) = 2 /\ IsInstanceData(call.arg)
    /\ HasKey(ActiveMap, call.arg[1].label)
    /\ ~HasKey(ActiveMap, call.arg[2].label)
    /\ call.err = "KeyError"

\* C6 (Empty-encoder precondition): a transform on a component without an
\* encoder raises, returns no dataset and emits no event; a transform that
\* returns a dataset was made on a component that holds an encoder.
C6_EmptyEncoder ==
    call.op = "transform" =>
        /\ label_encoder.st # "some" => call.err # "" /\ call.out = <<>> /\ ~call.emitted
        /\ (call.err = "" \/ call.emitted \/ call.out # <<>>) => label_encoder.st = "some"

\* A transform after _init_model gave no encoder.
C6_Witness ==
    call.op = "transform" /\ label_encoder.st = "none" /\ call.err = "ValueError"

\* Some key or value tag of a persisted param record is not recognised.
HasUnknownTag(param) ==
    \/ \E i \in 1..Len(param.encoder_key_type) :
           param.encoder_key_type[i][2] \notin RecognisedTags
    \/ \E i \in 1..Len(param.encoder_value_type) :
           param.encoder_value_type[i][2] \notin RecognisedTags

\* The step is a call of op.
IsCall(op) == calls' # calls /\ call'.op = op

\* C9 (Unknown type tag at load): a load_model of a record with a tag outside
\* the recognised set raises, and label_encoder keeps the value it had.
C9_UnknownTag ==
    [][(IsCall("load_model") /\ HasUnknownTag(call'.arg.param)) =>
           (call'.err # "" /\ label_encoder' = label_encoder)]_vars

\* A load_model of a record whose second key tag is unknown, on a component
\* that holds an encoder: the first entry could have been rebuilt.
C9_Witness ==
    /\ call.op = "load_model" /\ call.err = "ValueError"
    /\ HasUnknownTag(call.arg.param)
    /\ call.arg.param.encoder_key_type[1][2] \in RecognisedTags
    /\ label_encoder.st = "some"

\* y is what the encoder d maps x to.
Forward(d, x, y) == HasKey(d, x) /\ Get(d, x) = y

\* y is the key of the last entry of d whose value is x: what the inverted
\* encoder maps x to.
Backward(d, x, y) ==
    \E j \in 1..Len(d) :
        /\ PyEq(d[j][2], x) /\ d[j][1] = y
        /\ \A k \in (j + 1)..Len(d) : ~PyEq(d[k][2], x)

\* The labels of the returned records are related to those of the given
\* records by R (the label of an Instance, both labels of a predict result).
LabelsRelated(R(_, _)) ==
    \A i \in 1..Len(call.arg) :
        IF IsInstanceData(call.arg) THEN R(call.arg[i].label, call.out[i].label)
        ELSE /\ R(call.arg[i].true_label, call.out[i].true_label)
             /\ R(call.arg[i].predict_label, call.out[i].predict_label)

\* C2 as the claim states it: fit and transform both rewrite training records
\* forward and predict results inverse.
C2_DirectionByKindOnly ==
    (Rewrote("fit") \/ Rewrote("transform")) =>
        LET fwd(x, y) == Forward(label_encoder.d, x, y)
            bwd(x, y) == Backward(label_encoder.d, x, y)
        IN  IF IsInstanceData(call.arg) THEN LabelsRelated(fwd) ELSE LabelsRelated(bwd)

\* C2 (Direction rule, amended): transform rewrites training records forward
\* and predict results inverse; fit rewrites records of either kind forward,
\* with the encoder it has just installed.
C2_Direction ==
    LET fwd(x, y) == Forward(label_encoder.d, x, y)
        bwd(x, y) == Backward(label_encoder.d, x, y)
    IN  /\ Rewrote("fit") => LabelsRelated(fwd)
        /\ Rewrote("transform") =>
               IF IsInstanceData(call.arg) THEN LabelsRelated(fwd) ELSE LabelsRelated(bwd)

\* A fit rewrote a predict result with the forward map where the inverse map
\* gives another label or none.
C2_Witness ==
    /\ Rewrote("fit") /\ ~IsInstanceData(call.arg)
    /\ ~Backward(label_encoder.d, call.arg[1].true_label, call.out[1].true_label)

\* A transform rewrote a predict result with the inverse map where the
\* forward map gives another label.
C2_WitnessTransform ==
    /\ Rewrote("transform") /\ ~IsInstanceData(call.arg)
    /\ ~Forward(label_encoder.d, call.arg[1].true_label, call.out[1].true_label)

\* The entries of the rebuilt detail are the images of the keys of the given
\* detail under m, each once, each with the score of the last key it is the
\* image of.
DetailRebuilt(m, given, rebuilt) ==
    /\ \A j \in 1..Len(given) : HasKey(rebuilt, Get(m, given[j][1]))
    /\ \A a, b \in 1..Len(rebuilt) : PyEq(rebuilt[a][1], rebuilt[b][1]) => a = b
    /\ \A a \in 1..Len(rebuilt) :
           \E j \in 1..Len(given) :
               /\ rebuilt[a][1] = Get(m, given[j][1])
               /\ rebuilt[a][2] = given[j][2]
               /\ \A k \in (j + 1)..Len(given) : ~PyEq(Get(m, given[k][1]), rebuilt[a][1])

\* One entry per key of the given detail, under the image of that key, with
\* that key's score.
DetailOneToOne(m, given, rebuilt) ==
    /\ Len(rebuilt) = Len(given)
    /\ \A j \in 1..Len(given) :
           /\ HasKey(rebuilt, Get(m, given[j][1]))
           /\ Get(rebuilt, Get(m, given[j][1])) = given[j][2]

\* A fit or transform returned a dataset of predict results.
RewrotePredict ==
    (Rewrote("fit") \/ Rewrote("transform")) /\ ~IsInstanceData(call.arg)

\* The labels and the score of every returned predict result are those of the
\* given one under the active map, and its detail is related to the given
\* detail by D.
PredictRewritten(D(_, _, _)) ==
    /\ Len(call.out) = Len(call.arg)
    /\ \A i \in 1..Len(call.arg) :
           /\ call.out[i].true_label = Get(ActiveMap, call.arg[i].true_label)
           /\ call.out[i].predict_label = Get(ActiveMap, call.arg[i].predict_label)
           /\ call.out[i].predict_score = call.arg[i].predict_score
           /\ D(ActiveMap, call.arg[i].predict_detail, call.out[i].predict_detail)

\* C10 as the claim states it: the rebuilt detail has one entry per key of
\* the given detail.
C10_OneEntryPerKey == RewrotePredict => PredictRewritten(DetailOneToOne)

\* C10 (PredictionResult rewrite, amended): the rewritten record is
\* (m[true_label], m[predicted_label], predicted_score, d') where d' has one
\* entry per distinct image m[k] of a key k of predicted_detail, carrying the
\* score of the last key with that image: one entry per key, every score
\* unchanged, exactly when m maps the keys of predicted_detail to distinct
\* images.
C10_PredictRewrite ==
    RewrotePredict =>
        /\ PredictRewritten(DetailRebuilt)
        /\ \A i \in 1..Len(call.arg) :
               LET given == call.arg[i].predict_detail
               IN  (\A a, b \in 1..Len(given) :
                        PyEq(Get(ActiveMap, given[a][1]), Get(ActiveMap, given[b][1])) => a = b)
                   => DetailOneToOne(ActiveMap, given, call.out[i].predict_detail)

\* A predict result with two detail keys was rewritten to one with a single
\* detail entry.
C10_Witness ==
    /\ RewrotePredict
    /\ Len(call.arg[1].predict_detail) = 2
    /\ Len(call.out[1].predict_detail) = 1

\* A predict result with two detail keys was rewritten to one with two.
C10_WitnessInjective ==
    /\ RewrotePredict
    /\ Len(call.arg[1].predict_detail) = 2
    /\ Len(call.out[1].predict_detail) = 2
    /\ call.out[1].true_label # call.arg[1].true_label

\* The entries of a dict, whatever their order.
Entries(d) == {d[i] : i \in 1..Len(d)}

\* C1 (Round trip): export_model right after a fit that discovered the
\* encoder succeeds, and load_model of the exported param record rebuilds
\* label_encoder: the same keys and values, with their types.
C1_RoundTrip ==
    [][(Discovered /\ call.err = "" /\ IsCall("export_model")) =>
           /\ call'.err = ""
           /\ LET loaded == LoadedEncoder(None, model_output'.d[2])
              IN  /\ loaded.err = ""
                  /\ Entries(loaded.label_encoder.d) = Entries(label_encoder.d)]_vars

\* C7 (Encoder immutability): a fit or transform on a component that holds an
\* encoder leaves the encoder's key -> value mapping as it was.
C7_Immutable ==
    [][(label_encoder.st = "some" /\ (IsCall("fit") \/ IsCall("transform"))) =>
           PyDictEq(label_encoder'.d, label_encoder.d)]_vars

\* C8 (Explicit encoder): a fit right after _init_model supplied an encoder
\* discovers nothing and installs the supplied keys with the supplied values.
C8_ExplicitEncoder ==
    [][(call.op = "_init_model" /\ label_encoder.st = "some" /\ IsCall("fit")) =>
           /\ ~call'.discovered
           /\ call'.installed
           /\ PyDictEq(label_encoder'.d, label_encoder.d)]_vars

=============================================================================
